---------------------------- MODULE Spec2Model ----------------------------
(***************************************************************************)
(* Model of src/app.py: the resume upload / match service.                 *)
(*                                                                         *)
(* The process-wide state is RESUME_STORE (a dict from id strings to       *)
(* record dicts) and NEXT_RESUME_ID.  Requests are served by threads       *)
(* (Flask's server is threaded), so the handlers upload_resume and         *)
(* match_resume are modelled as per-thread programs whose steps are the    *)
(* points at which they read or write the shared state.  Record dicts are  *)
(* Python objects: a handler holds a reference to the dict it looked up,   *)
(* so the store maps ids to references into a heap of records.             *)
(*                                                                         *)
(* Texts (file names, page texts, ids) are sequences of one-character      *)
(* strings; a model output is a sequence of JSON tokens.                   *)
(***************************************************************************)
EXTENDS Integers, Sequences, FiniteSets, TLC

(***************************************************************************)
(* Bounds of the model.                                                    *)
(***************************************************************************)
NumThreads == 2
MaxRequests == 3

Threads == 1..NumThreads

(***************************************************************************)
(* Text helpers.                                                           *)
(***************************************************************************)
Digit == <<"0", "1", "2", "3", "4", "5", "6", "7", "8", "9">>

\* str(n) for n >= 0: the decimal digits of n.
RECURSIVE str(_)
str(n) == IF n < 10 THEN <<Digit[n + 1]>>
          ELSE str(n \div 10) \o <<Digit[(n % 10) + 1]>>

\* One character of str.lower(): only the letters the inputs use.
LowerChar(c) ==
    CASE c = "P" -> "p"
      [] c = "D" -> "d"
      [] c = "F" -> "f"
      [] OTHER -> c

lower(s) == [i \in 1..Len(s) |-> LowerChar(s[i])]

endswith_LengthOnly(s, suffix) == Len(s) >= Len(suffix)

endswith(s, suffix) ==
    /\ Len(s) >= Len(suffix)
    /\ SubSeq(s, Len(s) - Len(suffix) + 1, Len(s)) = suffix

PdfSuffix == <<".", "p", "d", "f">>

\* The characters str.splitlines() breaks at and the ones str.strip()
\* removes, as far as the texts here use them.
LineBreaks == {"\n", "\r", "\f"}
Whitespace == {" ", "\t"} \cup LineBreaks

\* "\n".join(parts)
RECURSIVE join(_)
join(parts) ==
    IF parts = <<>> THEN <<>>
    ELSE IF Len(parts) = 1 THEN parts[1]
    ELSE parts[1] \o <<"\n">> \o join(Tail(parts))

\* text.splitlines(): the pieces between line breaks, "\r\n" being one
\* break; a trailing line break does not open a further (empty) line.
RECURSIVE splitlinesFrom(_, _)
splitlinesFrom(s, cur) ==
    IF s = <<>> THEN (IF cur = <<>> THEN <<>> ELSE <<cur>>)
    ELSE IF Len(s) >= 2 /\ s[1] = "\r" /\ s[2] = "\n"
    THEN <<cur>> \o splitlinesFrom(Tail(Tail(s)), <<>>)
    ELSE IF Head(s) \in LineBreaks THEN <<cur>> \o splitlinesFrom(Tail(s), <<>>)
    ELSE splitlinesFrom(Tail(s), Append(cur, Head(s)))

splitlines(s) == splitlinesFrom(s, <<>>)

RECURSIVE lstrip(_)
lstrip(s) == IF s # <<>> /\ Head(s) \in Whitespace THEN lstrip(Tail(s)) ELSE s

RECURSIVE rstrip(_)
rstrip(s) == IF s # <<>> /\ s[Len(s)] \in Whitespace
             THEN rstrip(SubSeq(s, 1, Len(s) - 1)) ELSE s

strip_LeftOnly(s) == lstrip(s)

strip(s) == rstrip(lstrip(s))

\* [line.strip() for line in lines if line and line.strip()]
RECURSIVE cleanLines(_)
cleanLines(lines) ==
    IF lines = <<>> THEN <<>>
    ELSE LET line == Head(lines) IN
         IF line # <<>> /\ strip(line) # <<>>
         THEN <<strip(line)>> \o cleanLines(Tail(lines))
         ELSE cleanLines(Tail(lines))

(***************************************************************************)
(* A document is [ok, pages]: ok = FALSE when pdfplumber cannot open the   *)
(* bytes; a page is <<>> when extract_text() gives None, else <<text>>.    *)
(***************************************************************************)
PageText(page) == IF page = <<>> THEN <<>> ELSE page[1]

\* extract_text_from_pdf for a document that opens.
extract_text_from_pdf(doc) ==
    LET texts == [i \in 1..Len(doc.pages) |-> PageText(doc.pages[i])]
        text == join(texts)
        lines == cleanLines(splitlines(text))
    IN join(lines)


(***************************************************************************)
(* Python values, as far as the handlers look at them: the type, the       *)
(* length or number that decides truthiness, the keys of a dict, and the   *)
(* text the value was read from.                                           *)
(***************************************************************************)
PyNone == [ty |-> "NoneType", n |-> 0, keys |-> <<>>, src |-> <<>>]

\* {"raw_output": content}
Wrapper(content) ==
    [ty |-> "dict", n |-> 1, keys |-> <<"\"raw_output\"">>, src |-> content]

\* bool(v) as `not v` uses it: None, False, 0, "", [] and {} are falsy.
truthy(v) == v.n # 0

(***************************************************************************)
(* json.loads over a sequence of JSON tokens.  A parse gives               *)
(* [ok, ty, n, keys, next]: next is the index after the value.             *)
(***************************************************************************)
NumberTokens == {"0", "7"}
StringTokens == {"\"\"", "\"name\"", "\"Jane\"", "\"raw_output\""}

ParseFail == [ok |-> FALSE, ty |-> "", n |-> 0, keys |-> <<>>, next |-> 0]

Parsed(ty, n, keys, next) ==
    [ok |-> TRUE, ty |-> ty, n |-> n, keys |-> keys, next |-> next]

RECURSIVE ParseValue(_, _), ParseElements(_, _, _), ParseMembers(_, _, _)

ParseValue(s, i) ==
    IF i > Len(s) THEN ParseFail
    ELSE LET t == s[i] IN
         CASE t = "null" -> Parsed("NoneType", 0, <<>>, i + 1)
           [] t = "true" -> Parsed("bool", 1, <<>>, i + 1)
           [] t = "false" -> Parsed("bool", 0, <<>>, i + 1)
           [] t = "0" -> Parsed("int", 0, <<>>, i + 1)
           [] t \in NumberTokens \ {"0"} -> Parsed("int", 1, <<>>, i + 1)
           [] t = "\"\"" -> Parsed("str", 0, <<>>, i + 1)
           [] t \in StringTokens \ {"\"\""} -> Parsed("str", 1, <<>>, i + 1)
           [] t = "[" ->
                IF i + 1 <= Len(s) /\ s[i + 1] = "]"
                THEN Parsed("list", 0, <<>>, i + 2)
                ELSE ParseElements(s, i + 1, 0)
           [] t = "{" ->
                IF i + 1 <= Len(s) /\ s[i + 1] = "}"
                THEN Parsed("dict", 0, <<>>, i + 2)
                ELSE ParseMembers(s, i + 1, <<>>)
           [] OTHER -> ParseFail

\* value ("," value)* "]" ; count is the number of elements read so far.
ParseElements(s, i, count) ==
    LET v == ParseValue(s, i) IN
    IF ~v.ok \/ v.next > Len(s) THEN ParseFail
    ELSE IF s[v.next] = "]" THEN Parsed("list", count + 1, <<>>, v.next + 1)
    ELSE IF s[v.next] = "," THEN ParseElements(s, v.next + 1, count + 1)
    ELSE ParseFail

\* string ":" value ("," string ":" value)* "}" ; a repeated key keeps one entry.
ParseMembers(s, i, keys) ==
    IF i + 1 > Len(s) \/ s[i] \notin StringTokens \/ s[i + 1] # ":"
    THEN ParseFail
    ELSE LET v == ParseValue(s, i + 2)
             ks == IF \E k \in 1..Len(keys) : keys[k] = s[i]
                   THEN keys ELSE Append(keys, s[i])
         IN IF ~v.ok \/ v.next > Len(s) THEN ParseFail
            ELSE IF s[v.next] = "}" THEN Parsed("dict", Len(ks), ks, v.next + 1)
            ELSE IF s[v.next] = "," THEN ParseMembers(s, v.next + 1, ks)
            ELSE ParseFail

\* json.loads(content) returns normally: one value and nothing after it.
json_ok(content) ==
    LET r == ParseValue(content, 1) IN r.ok /\ r.next = Len(content) + 1

\* The value json.loads(content) returns when it returns.
json_loads(content) ==
    LET r == ParseValue(content, 1) IN
    IF r.ty = "NoneType" THEN PyNone
    ELSE [ty |-> r.ty, n |-> r.n, keys |-> r.keys, src |-> content]

\* A variant whose except branch gives up the text.
parse_or_fallback_DropsText(content) ==
    IF json_ok(content) THEN json_loads(content) ELSE PyNone

\* try: data = json.loads(content) / except Exception: data = {"raw_output": content}
parse_or_fallback(content) ==
    IF json_ok(content) THEN json_loads(content) ELSE Wrapper(content)

(***************************************************************************)
(* The inference call (zhipu_client.chat.completions.create) either fails  *)
(* or returns a text.  These are the texts the model is tried with.        *)
(***************************************************************************)
OutObject == <<"{", "\"name\"", ":", "\"Jane\"", "}">>
OutEmptyObject == <<"{", "}">>
OutNull == <<"null">>
OutList == <<"[", "7", "]">>
OutProse == <<"Sure", ":", "{", "}">>

ModelOutputs == {OutObject, OutEmptyObject, OutNull, OutList, OutProse}

CallFailed == [ok |-> FALSE, content |-> <<>>]

CallOutcomes == {CallFailed} \cup {[ok |-> TRUE, content |-> c] : c \in ModelOutputs}

\* extract_info_with_llm, given what the inference call did: the call's
\* exception propagates; otherwise the text is parsed, with the fallback.
extract_info_with_llm(outcome) ==
    IF ~outcome.ok THEN [raised |-> TRUE, value |-> PyNone]
    ELSE [raised |-> FALSE, value |-> parse_or_fallback(outcome.content)]

\* match_resume_with_llm, likewise (json.dumps of a stored value cannot fail).
match_resume_with_llm(outcome) ==
    IF ~outcome.ok THEN [raised |-> TRUE, value |-> PyNone]
    ELSE [raised |-> FALSE, value |-> parse_or_fallback(outcome.content)]

(***************************************************************************)
(* Request inputs.                                                         *)
(***************************************************************************)
NameLower == <<"a", ".", "p", "d", "f">>
NameUpper == <<"b", ".", "P", "D", "F">>
NameText == <<"c", ".", "t", "x", "t">>

Malformed == [ok |-> FALSE, pages |-> <<>>]
DocA == [ok |-> TRUE,
         pages |-> << <<<<" ", "J", " ", "\n", "\n", "G", "o">>>>, <<>> >>]
DocB == [ok |-> TRUE, pages |-> << <<<<"S", "Q", "L", "\n", " ">>>> >>]

\* request.files.get("file"): has = FALSE when the field is missing.
UploadInputs ==
    { [has |-> FALSE, filename |-> <<>>, doc |-> Malformed],
      [has |-> TRUE, filename |-> NameText, doc |-> DocA],
      [has |-> TRUE, filename |-> NameLower, doc |-> Malformed],
      [has |-> TRUE, filename |-> NameLower, doc |-> DocA],
      [has |-> TRUE, filename |-> NameUpper, doc |-> DocB] }

\* The JSON body of a match request; <<>> and "" stand for a missing or
\* empty field.
MatchInputs ==
    { [resume_id |-> <<>>, job_description |-> "jd1"],
      [resume_id |-> str(1), job_description |-> ""] }
    \cup { [resume_id |-> str(i), job_description |-> jd] :
             i \in {1, 2}, jd \in {"jd1", "jd2"} }

(***************************************************************************)
(* State.                                                                  *)
(***************************************************************************)
VARIABLES
    RESUME_STORE,    \* id text -> reference of the record dict
    NEXT_RESUME_ID,  \* the id counter
    heap,            \* the record dicts ever created, by reference
    pc,              \* per thread: where its handler stands
    local,           \* per thread: the handler's local variables
    log,             \* per thread: the inference calls of its request so far
    resp,            \* the response sent last, with its request and calls
    issued,          \* history: id text -> how often line 278 assigned it
    started          \* history: number of requests begun

vars == <<RESUME_STORE, NEXT_RESUME_ID, heap, pc, local, log, resp, issued, started>>

\* What a request carried.
NoRequest == [kind |-> "", has |-> FALSE, filename |-> <<>>, doc_ok |-> FALSE,
              resume_id |-> <<>>, job_description |-> ""]

\* A handler's frame: the request it serves and its local variables.
NoLocal == [request |-> NoRequest,
            filename |-> <<>>, raw_text |-> <<>>, parsed_info |-> PyNone,
            resume_id |-> <<>>, tmp |-> 0, resume |-> 0,
            job_description |-> "", match_result |-> PyNone]

UploadRequest(u) ==
    [NoRequest EXCEPT !.kind = "upload", !.has = u.has,
                      !.filename = u.filename, !.doc_ok = u.doc.ok]

MatchRequest(m) ==
    [NoRequest EXCEPT !.kind = "match", !.resume_id = m.resume_id,
                      !.job_description = m.job_description]

NoResp == [request |-> NoRequest, status |-> 0, resume_id |-> <<>>,
           filename |-> <<>>, parsed |-> PyNone, job_description |-> "",
           match_result |-> PyNone, calls |-> <<>>]

\* An error response: jsonify({"error": ...}), status; 500 is what Flask
\* answers when the handler raises.
ErrorResp(request, status, calls) ==
    [NoResp EXCEPT !.request = request, !.status = status, !.calls = calls]

\* One entry of log: the call's kind and arguments, what the call did and
\* what the calling function did with it.
LogEntry(kind, text, parsed, jd, outcome, r) ==
    [kind |-> kind, text |-> text, parsed |-> parsed, jd |-> jd,
     ok |-> outcome.ok, content |-> outcome.content,
     raised |-> r.raised, value |-> r.value]

Init ==
    /\ RESUME_STORE = [id \in {} |-> 0]
    /\ NEXT_RESUME_ID = 1
    /\ heap = <<>>
    /\ pc = [t \in Threads |-> "idle"]
    /\ local = [t \in Threads |-> NoLocal]
    /\ log = [t \in Threads |-> <<>>]
    /\ resp = NoResp
    /\ issued = [id \in {} |-> 0]
    /\ started = 0

\* A request ends: the response is sent and the handler's frame is gone.
Finish(t, response) ==
    /\ resp' = response
    /\ pc' = [pc EXCEPT ![t] = "idle"]
    /\ local' = [local EXCEPT ![t] = NoLocal]
    /\ log' = [log EXCEPT ![t] = <<>>]

\* The history of line 278 with one more assignment of id.
Issue(h, id) ==
    IF id \in DOMAIN h THEN [h EXCEPT ![id] = @ + 1] ELSE (id :> 1) @@ h

(***************************************************************************)
(* upload_resume                                                           *)
(***************************************************************************)
\* The early returns of lines 259, 263 and 268: an error response, nothing
\* else is touched.
UploadRejected_ConsumesId(t, request, status) ==
    /\ Finish(t, ErrorResp(request, status, <<>>))
    /\ NEXT_RESUME_ID' = NEXT_RESUME_ID + 1
    /\ UNCHANGED <<RESUME_STORE, heap, issued>>

UploadRejected(t, request, status) ==
    /\ Finish(t, ErrorResp(request, status, <<>>))
    /\ UNCHANGED <<RESUME_STORE, NEXT_RESUME_ID, heap, issued>>

\* Lines 257-275: the checks of the request, the text extraction and the
\* extraction call, whose failure leaves parsed_info None.
UploadBegin(t) ==
    /\ pc[t] = "idle"
    /\ started < MaxRequests
    /\ started' = started + 1
    /\ \E u \in UploadInputs :
         IF ~u.has THEN UploadRejected(t, UploadRequest(u), 400)
         ELSE IF ~endswith(lower(u.filename), PdfSuffix)
         THEN UploadRejected(t, UploadRequest(u), 400)
         ELSE IF ~u.doc.ok THEN UploadRejected(t, UploadRequest(u), 500)
         ELSE \E outcome \in CallOutcomes :
              LET raw_text == extract_text_from_pdf(u.doc)
                  r == extract_info_with_llm(outcome)
              IN
              /\ local' = [local EXCEPT ![t] =
                     [NoLocal EXCEPT !.request = UploadRequest(u),
                                     !.filename = u.filename,
                                     !.raw_text = raw_text,
                                     !.parsed_info =
                                         IF r.raised THEN PyNone ELSE r.value]]
              /\ log' = [log EXCEPT ![t] =
                     <<LogEntry("extract", raw_text, PyNone, "", outcome, r)>>]
              /\ pc' = [pc EXCEPT ![t] = "u_id"]
              /\ UNCHANGED <<RESUME_STORE, NEXT_RESUME_ID, heap, issued, resp>>

\* Line 278: resume_id = str(NEXT_RESUME_ID)
UploadReadId(t) ==
    /\ pc[t] = "u_id"
    /\ local' = [local EXCEPT ![t].resume_id = str(NEXT_RESUME_ID)]
    /\ issued' = Issue(issued, str(NEXT_RESUME_ID))
    /\ pc' = [pc EXCEPT ![t] = "u_load"]
    /\ UNCHANGED <<RESUME_STORE, NEXT_RESUME_ID, heap, log, resp, started>>

\* Line 279, NEXT_RESUME_ID += 1: the read of the global ...
UploadLoad(t) ==
    /\ pc[t] = "u_load"
    /\ local' = [local EXCEPT ![t].tmp = NEXT_RESUME_ID]
    /\ pc' = [pc EXCEPT ![t] = "u_inc"]
    /\ UNCHANGED <<RESUME_STORE, NEXT_RESUME_ID, heap, log, resp, issued, started>>

\* ... and the write of the sum.
UploadInc(t) ==
    /\ pc[t] = "u_inc"
    /\ NEXT_RESUME_ID' = local[t].tmp + 1
    /\ pc' = [pc EXCEPT ![t] = "u_store"]
    /\ UNCHANGED <<RESUME_STORE, heap, local, log, resp, issued, started>>

\* The record dict of lines 282-286.
NewRecord_WithoutParsed(l) ==
    [filename |-> l.filename, raw_text |-> l.raw_text,
     parsed |-> PyNone, last_match |-> <<>>]

NewRecord(l) ==
    [filename |-> l.filename, raw_text |-> l.raw_text,
     parsed |-> l.parsed_info, last_match |-> <<>>]

\* The response of lines 291-297.
UploadResp(l, calls) ==
    [NoResp EXCEPT !.request = l.request,
                   !.status = 200, !.resume_id = l.resume_id,
                   !.filename = l.filename, !.parsed = l.parsed_info,
                   !.calls = calls]

\* Lines 282-297: RESUME_STORE[resume_id] = {...} and the response.
UploadStore(t) ==
    /\ pc[t] = "u_store"
    /\ heap' = Append(heap, NewRecord(local[t]))
    /\ RESUME_STORE' = (local[t].resume_id :> (Len(heap) + 1)) @@ RESUME_STORE
    /\ Finish(t, UploadResp(local[t], log[t]))
    /\ UNCHANGED <<NEXT_RESUME_ID, issued, started>>

(***************************************************************************)
(* match_resume                                                            *)
(***************************************************************************)
\* The early returns of lines 312 and 316.
MatchRejected_BadRequest(t, request, status) ==
    /\ Finish(t, ErrorResp(request, 400, <<>>))
    /\ UNCHANGED <<RESUME_STORE, NEXT_RESUME_ID, heap, issued>>

MatchRejected(t, request, status) ==
    /\ Finish(t, ErrorResp(request, status, <<>>))
    /\ UNCHANGED <<RESUME_STORE, NEXT_RESUME_ID, heap, issued>>

\* An exception of an inference call (line 320 or 323) leaves the handler:
\* status 500, and nothing after the call is executed.
MatchFailed_DropsLastMatch(t, calls) ==
    /\ Finish(t, ErrorResp(local[t].request, 500, calls))
    /\ heap' = [heap EXCEPT ![local[t].resume].last_match = <<>>]

MatchFailed_Retries(t, calls) ==
    /\ log' = [log EXCEPT ![t] = calls]
    /\ UNCHANGED <<pc, local, resp, heap>>

MatchFailed(t, calls) ==
    /\ Finish(t, ErrorResp(local[t].request, 500, calls))
    /\ heap' = heap

\* Lines 306-319: the checks of the request, RESUME_STORE.get and the test
\* `if not resume.get("parsed")`.
MatchBegin(t) ==
    /\ pc[t] = "idle"
    /\ started < MaxRequests
    /\ started' = started + 1
    /\ \E m \in MatchInputs :
         IF m.resume_id = <<>> \/ m.job_description = ""
         THEN MatchRejected(t, MatchRequest(m), 400)
         ELSE IF m.resume_id \notin DOMAIN RESUME_STORE
         THEN MatchRejected(t, MatchRequest(m), 404)
         ELSE LET ref == RESUME_STORE[m.resume_id] IN
              /\ local' = [local EXCEPT ![t] =
                     [NoLocal EXCEPT !.request = MatchRequest(m),
                                     !.resume_id = m.resume_id,
                                     !.job_description = m.job_description,
                                     !.resume = ref]]
              /\ pc' = [pc EXCEPT ![t] =
                     IF ~truthy(heap[ref].parsed) THEN "m_extract" ELSE "m_score"]
              /\ UNCHANGED <<RESUME_STORE, NEXT_RESUME_ID, heap, issued, log, resp>>

\* Line 320: resume["parsed"] = extract_info_with_llm(resume["raw_text"])
MatchExtract(t) ==
    /\ pc[t] = "m_extract"
    /\ \E outcome \in CallOutcomes :
         LET r == extract_info_with_llm(outcome)
             ref == local[t].resume
             calls == Append(log[t],
                 LogEntry("extract", heap[ref].raw_text, PyNone, "", outcome, r))
         IN
         IF r.raised
         THEN MatchFailed(t, calls)
         ELSE /\ heap' = [heap EXCEPT ![ref].parsed = r.value]
              /\ log' = [log EXCEPT ![t] = calls]
              /\ pc' = [pc EXCEPT ![t] = "m_score"]
              /\ UNCHANGED <<local, resp>>
    /\ UNCHANGED <<RESUME_STORE, NEXT_RESUME_ID, issued, started>>

\* Line 323: match_result = match_resume_with_llm(resume["parsed"], job_description)
MatchScore(t) ==
    /\ pc[t] = "m_score"
    /\ \E outcome \in CallOutcomes :
         LET r == match_resume_with_llm(outcome)
             ref == local[t].resume
             calls == Append(log[t],
                 LogEntry("score", <<>>, heap[ref].parsed,
                          local[t].job_description, outcome, r))
         IN
         IF r.raised
         THEN MatchFailed(t, calls)
         ELSE /\ local' = [local EXCEPT ![t].match_result = r.value]
              /\ log' = [log EXCEPT ![t] = calls]
              /\ pc' = [pc EXCEPT ![t] = "m_write"]
              /\ UNCHANGED <<heap, resp>>
    /\ UNCHANGED <<RESUME_STORE, NEXT_RESUME_ID, issued, started>>

\* The dict of lines 326-329.
MatchRecord(l) ==
    [job_description |-> l.job_description, match_result |-> l.match_result]

\* The response of lines 331-336.
MatchResp(l, calls) ==
    [NoResp EXCEPT !.request = l.request,
                   !.status = 200, !.resume_id = l.resume_id,
                   !.job_description = l.job_description,
                   !.match_result = l.match_result, !.calls = calls]

\* resume["last_match"] = {...}: the value of the key is replaced.
SetLastMatch_KeepsOldText(record, l) ==
    IF record.last_match = <<>>
    THEN [record EXCEPT !.last_match = <<MatchRecord(l)>>]
    ELSE [record EXCEPT !.last_match[1].match_result = l.match_result]

SetLastMatch(record, l) == [record EXCEPT !.last_match = <<MatchRecord(l)>>]

\* Lines 326-336: the write of last_match and the response.
MatchWrite(t) ==
    /\ pc[t] = "m_write"
    /\ heap' = [heap EXCEPT ![local[t].resume] = SetLastMatch(@, local[t])]
    /\ Finish(t, MatchResp(local[t], log[t]))
    /\ UNCHANGED <<RESUME_STORE, NEXT_RESUME_ID, issued, started>>

(***************************************************************************)
(* Specifications.                                                         *)
(***************************************************************************)
\* Threads interleave at every step.
Next ==
    \E t \in Threads :
        \/ UploadBegin(t)
        \/ UploadReadId(t)
        \/ UploadLoad(t)
        \/ UploadInc(t)
        \/ UploadStore(t)
        \/ MatchBegin(t)
        \/ MatchExtract(t)
        \/ MatchScore(t)
        \/ MatchWrite(t)

Spec == Init /\ [][Next]_vars

\* Requests served one at a time: a thread moves only while the others idle.
Serial(t) == \A u \in Threads \ {t} : pc[u] = "idle"

SeqNext ==
    \E t \in Threads :
        \/ Serial(t) /\ UploadBegin(t)
        \/ Serial(t) /\ UploadReadId(t)
        \/ Serial(t) /\ UploadLoad(t)
        \/ Serial(t) /\ UploadInc(t)
        \/ Serial(t) /\ UploadStore(t)
        \/ Serial(t) /\ MatchBegin(t)
        \/ Serial(t) /\ MatchExtract(t)
        \/ Serial(t) /\ MatchScore(t)
        \/ Serial(t) /\ MatchWrite(t)

SeqSpec == Init /\ [][SeqNext]_vars

(***************************************************************************)
(* The two parse-or-fallback functions on their own: every text of at most *)
(* MaxTokens tokens is handed to both, as the text of a call that          *)
(* succeeded, and a failed call is handed to both.  The outcome is left in *)
(* resp.calls.                                                             *)
(***************************************************************************)
MaxTokens == 3

TokenAlphabet ==
    {"{", "}", "[", "]", ":", ",", "null", "true", "7", "\"name\"", "Sure"}

RECURSIVE TextsUpTo(_)
TextsUpTo(n) ==
    IF n = 0 THEN {<<>>}
    ELSE LET shorter == TextsUpTo(n - 1) IN
         shorter \cup {Append(s, tok) : s \in shorter, tok \in TokenAlphabet}

ParseOutcomes ==
    {CallFailed} \cup {[ok |-> TRUE, content |-> c] : c \in TextsUpTo(MaxTokens)}

ApplyParsers ==
    /\ resp = NoResp
    /\ \E outcome \in ParseOutcomes :
         resp' = [NoResp EXCEPT !.request = [NoRequest EXCEPT !.kind = "parse"],
                                !.calls =
             << LogEntry("extract", <<>>, PyNone, "", outcome,
                         extract_info_with_llm(outcome)),
                LogEntry("score", <<>>, PyNone, "", outcome,
                         match_resume_with_llm(outcome)) >>]
    /\ UNCHANGED <<RESUME_STORE, NEXT_RESUME_ID, heap, pc, local, log, issued, started>>

ParseSpec == Init /\ [][ApplyParsers]_vars

(***************************************************************************)
(* The text extractor on its own: documents are built page by page and     *)
(* character by character, up to MaxDocSize pages and characters in all,   *)
(* and each is handed to extract_text_from_pdf.  The pages and the text    *)
(* returned are left in resp.calls.                                        *)
(***************************************************************************)
MaxDocSize == 6

PageAlphabet == {"a", "b", " ", "\n", "\r"}

\* The pages of the document handed over last, and the text returned.
DocPages == IF resp.request.kind = "extract" THEN resp.calls[1].pages ELSE <<>>
DocOutput == IF resp.request.kind = "extract" THEN resp.calls[1].text ELSE <<>>

RECURSIVE DocSize(_)
DocSize(pages) ==
    IF pages = <<>> THEN 0
    ELSE 1 + Len(PageText(Head(pages))) + DocSize(Tail(pages))

Extracted_From(pages) ==
    [NoResp EXCEPT
        !.request = [NoRequest EXCEPT !.kind = "extract", !.doc_ok = TRUE],
        !.calls = <<[pages |-> pages,
                     text |-> extract_text_from_pdf([ok |-> TRUE, pages |-> pages])]>>]

\* One more page: without text (extract_text() gives None) or with the
\* empty text.
AddPage ==
    /\ DocSize(DocPages) < MaxDocSize
    /\ \E page \in {<<>>, << <<>> >>} : resp' = Extracted_From(Append(DocPages, page))
    /\ UNCHANGED <<RESUME_STORE, NEXT_RESUME_ID, heap, pc, local, log, issued, started>>

\* One more character on the last page, if that page has text.
AddChar ==
    /\ DocSize(DocPages) < MaxDocSize
    /\ DocPages # <<>>
    /\ DocPages[Len(DocPages)] # <<>>
    /\ \E c \in PageAlphabet :
         resp' = Extracted_From(
             [DocPages EXCEPT ![Len(DocPages)] = <<Append(@[1], c)>>])
    /\ UNCHANGED <<RESUME_STORE, NEXT_RESUME_ID, heap, pc, local, log, issued, started>>

ExtractNext == AddPage \/ AddChar

ExtractSpec == Init /\ [][ExtractNext]_vars

(***************************************************************************)
(* Shorthands for the statements below.                                    *)
(***************************************************************************)
\* The record the store holds under id.
Record(id) == heap[RESUME_STORE[id]]

\* No request is being served.
Quiescent == \A t \in Threads : pc[t] = "idle"

\* How many assignments of line 278 there have been.
RECURSIVE SumCounts(_, _)
SumCounts(h, ids) ==
    IF ids = {} THEN 0
    ELSE LET id == CHOOSE x \in ids : TRUE IN h[id] + SumCounts(h, ids \ {id})

NumIssued == SumCounts(issued, DOMAIN issued)

\* Every inference call on record: of the requests being served and of the
\* request answered last.
AllCalls ==
    {resp.calls[i] : i \in 1..Len(resp.calls)}
    \cup UNION {{log[t][i] : i \in 1..Len(log[t])} : t \in Threads}

UploadPcs == {"u_id", "u_load", "u_inc", "u_store"}
MatchPcs == {"m_extract", "m_score", "m_write"}

(***************************************************************************)
(* C1.  Concurrent uploads obtain pairwise distinct ids, and the ids       *)
(* issued so far are exactly "1", ..., "N" for the N uploads that were     *)
(* assigned one: no id is assigned twice.                                  *)
(* The handler reads the counter (line 278) and advances it (line 279)     *)
(* without a lock, so this is violated.                                    *)
(***************************************************************************)
C1_IssuedIdsDistinct ==
    /\ \A id \in DOMAIN issued : issued[id] = 1
    /\ DOMAIN issued = {str(i) : i \in 1..NumIssued}

(***************************************************************************)
(* C2.  In every reachable state, every stored record's parsed, when       *)
(* present, and last_match.match_result, when last_match is present, is a  *)
(* JSON object (a schema object or the fallback wrapper).                  *)
(* json.loads accepts any JSON value, so a model output such as [7] or     *)
(* null is stored as a list or as None: violated.                          *)
(***************************************************************************)
C2_StoredValuesAreObjects ==
    \A id \in DOMAIN RESUME_STORE :
        /\ Record(id).parsed # PyNone => Record(id).parsed.ty = "dict"
        /\ Record(id).last_match # <<>> =>
               Record(id).last_match[1].match_result.ty = "dict"

(***************************************************************************)
(* C3.  extract_info_with_llm and match_resume_with_llm raise exactly when *)
(* the inference call failed; when the call returned a text that is not    *)
(* JSON, both return the wrapper holding exactly that text.                *)
(***************************************************************************)
C3_ParseFailureFallsBack ==
    \A e \in AllCalls :
        /\ e.raised <=> ~e.ok
        /\ (e.ok /\ ~json_ok(e.content)) =>
               (~e.raised /\ e.value = Wrapper(e.content))

\* Both functions were handed the same text that is not JSON, and both
\* returned the wrapper of it.
C3_Witness ==
    /\ resp.request.kind = "parse"
    /\ Len(resp.calls) = 2
    /\ resp.calls[1].kind = "extract" /\ resp.calls[2].kind = "score"
    /\ \A i \in 1..2 :
           /\ resp.calls[i].ok
           /\ resp.calls[i].content = <<"Sure", "{", "}">>
           /\ ~resp.calls[i].raised
           /\ resp.calls[i].value =
                  [ty |-> "dict", n |-> 1, keys |-> <<"\"raw_output\"">>,
                   src |-> <<"Sure", "{", "}">>]

(***************************************************************************)
(* C4.  An upload whose text extraction succeeded and whose inference call *)
(* failed still succeeds: its write of the counter advances the counter by *)
(* one; its store step creates exactly one new record, under an id that    *)
(* had no record, holding the extracted raw_text, the filename and parsed  *)
(* None, and changes no other entry; the response is 200 with that id and  *)
(* parsed None.                                                            *)
(* With uploads interleaved the id need not be fresh and the counter need  *)
(* not advance (see C1): violated under Spec.  It holds under SeqSpec.     *)
(***************************************************************************)
C4_UploadSurvivesInferenceFailure ==
    [][\A t \in Threads :
         (pc[t] \in UploadPcs /\ log[t][1].raised) =>
           /\ (pc[t] = "u_inc" /\ pc'[t] = "u_store") =>
                  NEXT_RESUME_ID' = NEXT_RESUME_ID + 1
           /\ (pc[t] = "u_store" /\ pc'[t] = "idle") =>
                  /\ local[t].resume_id \notin DOMAIN RESUME_STORE
                  /\ DOMAIN RESUME_STORE' =
                         DOMAIN RESUME_STORE \cup {local[t].resume_id}
                  /\ \A id \in DOMAIN RESUME_STORE :
                         RESUME_STORE'[id] = RESUME_STORE[id]
                  /\ Len(heap') = Len(heap) + 1
                  /\ \A ref \in DOMAIN heap : heap'[ref] = heap[ref]
                  /\ heap'[RESUME_STORE'[local[t].resume_id]] =
                         [filename |-> local[t].filename,
                          raw_text |-> local[t].raw_text,
                          parsed |-> PyNone, last_match |-> <<>>]
                  /\ resp'.status = 200
                  /\ resp'.resume_id = local[t].resume_id
                  /\ resp'.filename = local[t].filename
                  /\ resp'.parsed = PyNone
      ]_vars

(***************************************************************************)
(* C5.  An upload whose text extraction fails is answered with an error:   *)
(* it makes no inference call and never reaches the id assignment, and the *)
(* step that rejects it leaves the store, the records and the counter      *)
(* unchanged.  So, with requests served one at a time, whenever no request *)
(* is being served the keys of the store are exactly "1", ...,             *)
(* str(NEXT_RESUME_ID - 1).                                                *)
(***************************************************************************)
ExtractionFails(request) ==
    /\ request.kind = "upload"
    /\ request.has
    /\ endswith(lower(request.filename), PdfSuffix)
    /\ ~request.doc_ok

C5_FailedExtractionState ==
    /\ ExtractionFails(resp.request) => (resp.status = 500 /\ resp.calls = <<>>)
    /\ \A t \in Threads : ~ExtractionFails(local[t].request)
    /\ Quiescent =>
           DOMAIN RESUME_STORE = {str(i) : i \in 1..(NEXT_RESUME_ID - 1)}

C5_FailedExtractionStep ==
    (started' = started + 1 /\ pc' = pc /\ ExtractionFails(resp'.request)) =>
        UNCHANGED <<RESUME_STORE, heap, NEXT_RESUME_ID, issued>>

C5_FailedExtractionLeavesNoTrace ==
    [](C5_FailedExtractionState) /\ [][C5_FailedExtractionStep]_vars

\* A document that cannot be read was uploaded after a successful upload:
\* the answer is 500 and the store holds the one record as before.
C5_Witness ==
    /\ Quiescent
    /\ ExtractionFails(resp.request)
    /\ resp.status = 500
    /\ DOMAIN RESUME_STORE = {str(1)}
    /\ NEXT_RESUME_ID = 2

(***************************************************************************)
(* C6.  A match request with a job description and an id that was never    *)
(* issued is answered 404 without any inference call; it never gets past   *)
(* the lookup, and the step that answers 404 leaves the store, the records *)
(* and the counter unchanged.                                              *)
(***************************************************************************)
NeverIssued(request) ==
    /\ request.kind = "match"
    /\ request.resume_id # <<>>
    /\ request.job_description # ""
    /\ request.resume_id \notin DOMAIN issued

C6_UnknownIdState ==
    /\ NeverIssued(resp.request) => (resp.status = 404 /\ resp.calls = <<>>)
    /\ \A t \in Threads : ~NeverIssued(local[t].request)

C6_UnknownIdStep ==
    (started' = started + 1 /\ pc' = pc /\ resp'.request.kind = "match"
        /\ resp'.status = 404) =>
        UNCHANGED <<RESUME_STORE, heap, NEXT_RESUME_ID, issued>>

C6_UnknownIdIsNotFound ==
    [](C6_UnknownIdState) /\ [][C6_UnknownIdStep]_vars

\* After one upload, a match request for "2", which was never issued, was
\* answered 404.
C6_Witness ==
    /\ DOMAIN issued = {str(1)}
    /\ DOMAIN RESUME_STORE = {str(1)}
    /\ NeverIssued(resp.request)
    /\ resp.request.resume_id = str(2)
    /\ resp.status = 404
    /\ resp.calls = <<>>

(***************************************************************************)
(* C7.  A match request on a record whose parsed is absent issues the      *)
(* extraction call before any scoring call, and no scoring call is ever    *)
(* issued with parsed absent (None).                                       *)
(* When the extraction call returns the text null, json.loads gives None,  *)
(* None is stored as parsed and the scoring call is issued with it:        *)
(* violated.                                                               *)
(***************************************************************************)
C7_ScoringNeverSeesAbsentParsed ==
    /\ \A t \in Threads : pc[t] = "m_extract" => log[t] = <<>>
    /\ \A e \in AllCalls : e.kind = "score" => e.parsed # PyNone

(***************************************************************************)
(* C8.  When a match request on an existing id succeeds, the record the    *)
(* store holds under that id has as last_match exactly the one pair        *)
(* (job_description of the request, match_result of the response), and the *)
(* last_match of every other record of the store is unchanged.             *)
(* A handler writes to the dict it looked up; when a racing upload was     *)
(* assigned the same id (see C1) the store holds another dict under the id *)
(* by then: violated under Spec.  It holds under SeqSpec.                  *)
(***************************************************************************)
C8_LastMatchIsTheLastPair ==
    [][\A t \in Threads :
         (pc[t] = "m_write" /\ pc'[t] = "idle") =>
           /\ resp'.status = 200
           /\ resp'.job_description = local[t].request.job_description
           /\ local[t].request.resume_id \in DOMAIN RESUME_STORE'
           /\ heap'[RESUME_STORE'[local[t].request.resume_id]].last_match =
                  << [job_description |-> local[t].request.job_description,
                      match_result |-> resp'.match_result] >>
           /\ \A id \in DOMAIN RESUME_STORE \ {local[t].request.resume_id} :
                  heap'[RESUME_STORE'[id]].last_match = Record(id).last_match
      ]_vars

(***************************************************************************)
(* C9.  An inference call that fails during a match request ends that      *)
(* request with an error and nothing else: the failed call is the          *)
(* request's last, the step changes no record, neither the store nor the   *)
(* counter, and the id still has its record, so that a later match request *)
(* on it is served.  A record's last_match changes only in the step that   *)
(* completes a successful match request on that record.                    *)
(***************************************************************************)
C9_FailedMatchState ==
    /\ \A t \in Threads : \A i \in 1..Len(log[t]) :
           pc[t] \in MatchPcs => ~log[t][i].raised
    /\ resp.request.kind = "match" =>
           /\ \A i \in 1..Len(resp.calls) :
                  resp.calls[i].raised => (i = Len(resp.calls) /\ resp.status = 500)
           /\ resp.status = 500 =>
                  /\ resp.calls # <<>>
                  /\ ~resp.calls[Len(resp.calls)].ok
                  /\ resp.request.resume_id \in DOMAIN RESUME_STORE

C9_FailedMatchStep ==
    /\ \A t \in Threads :
         (pc[t] \in MatchPcs /\ pc'[t] = "idle" /\ resp'.status # 200) =>
           /\ resp'.status = 500
           /\ resp'.request = local[t].request
           /\ heap' = heap
           /\ UNCHANGED <<RESUME_STORE, NEXT_RESUME_ID, issued>>
    /\ \A ref \in DOMAIN heap :
         heap'[ref].last_match # heap[ref].last_match =>
           \E t \in Threads :
               /\ pc[t] = "m_write" /\ pc'[t] = "idle"
               /\ local[t].resume = ref
               /\ resp'.status = 200

C9_FailedMatchChangesNothing ==
    [](C9_FailedMatchState) /\ [][C9_FailedMatchStep]_vars

\* A match request failed in its scoring call on a record that an earlier
\* match request had given a last_match, which is still there.
C9_Witness ==
    /\ resp.request.kind = "match"
    /\ resp.status = 500
    /\ resp.calls # <<>>
    /\ resp.calls[Len(resp.calls)].kind = "score"
    /\ resp.request.resume_id \in DOMAIN RESUME_STORE
    /\ Record(resp.request.resume_id).last_match # <<>>

(***************************************************************************)
(* C10.  Once the store holds a record under an id, every later step keeps *)
(* the id in the store with the same raw_text and the same filename.       *)
(* An upload that was assigned an id a second time (see C1) replaces the   *)
(* record: violated under Spec.  It holds under SeqSpec.                   *)
(***************************************************************************)
C10_RecordsAreNeverReplaced ==
    [][\A id \in DOMAIN RESUME_STORE :
         /\ id \in DOMAIN RESUME_STORE'
         /\ heap'[RESUME_STORE'[id]].raw_text = Record(id).raw_text
         /\ heap'[RESUME_STORE'[id]].filename = Record(id).filename
      ]_vars

(***************************************************************************)
(* C11.  A request that fails validation is rejected before any other      *)
(* step: an upload with no file or whose file name does not end in ".pdf"  *)
(* (in any letter case), and a match request without an id or without a    *)
(* non-empty job description, is answered 400 (never the 404 of an unknown *)
(* id), makes no inference call, is never served any further, and leaves   *)
(* the store, the records and the id counter as they were.                 *)
(***************************************************************************)
\* The file name carries the extension, spelled out letter by letter.
HasPdfExtension(name) ==
    /\ Len(name) >= 4
    /\ name[Len(name) - 3] = "."
    /\ name[Len(name) - 2] \in {"p", "P"}
    /\ name[Len(name) - 1] \in {"d", "D"}
    /\ name[Len(name)] \in {"f", "F"}

FailsValidation(request) ==
    \/ /\ request.kind = "upload"
       /\ ~request.has \/ ~HasPdfExtension(request.filename)
    \/ /\ request.kind = "match"
       /\ request.resume_id = <<>> \/ request.job_description = ""

C11_InvalidRequestState ==
    /\ FailsValidation(resp.request) =>
           /\ resp.status = 400
           /\ resp.calls = <<>>
    /\ \A t \in Threads :
           /\ ~FailsValidation(local[t].request)
           /\ pc[t] # "idle" => local[t].request.kind \in {"upload", "match"}

\* A step that begins a request and ends it at once is a rejection; resp'
\* is then the answer to that request.
C11_InvalidRequestStep ==
    (started' = started + 1 /\ pc' = pc /\ FailsValidation(resp'.request)) =>
        /\ UNCHANGED <<RESUME_STORE, heap, NEXT_RESUME_ID, issued, local, log>>
        /\ resp'.status = 400
        /\ resp'.calls = <<>>

Extracted(entry) == IF entry.raised THEN PyNone ELSE entry.value

C12_UploadReturnsStoredStep ==
    \A t \in Threads :
        /\ (pc[t] = "u_store" /\ pc'[t] = "idle") =>
               /\ resp'.status = 200
               /\ resp'.request = local[t].request
               /\ resp'.filename = resp'.request.filename
               /\ Len(log[t]) = 1
               /\ log[t][1].kind = "extract"
               /\ resp'.parsed = Extracted(log[t][1])
               /\ resp'.resume_id \in DOMAIN RESUME_STORE'
               /\ RESUME_STORE'[resp'.resume_id] = Len(heap')
               /\ Len(heap') = Len(heap) + 1
               /\ heap'[Len(heap')].filename = resp'.filename
               /\ heap'[Len(heap')].parsed = resp'.parsed
               /\ heap'[Len(heap')].raw_text = log[t][1].text
               /\ NumIssued = 1 => resp'.resume_id = str(1)
        /\ (pc[t] = "u_id" /\ pc'[t] # "u_id" /\ NumIssued = 0) =>
               local'[t].resume_id = str(1)

Kinds(calls) == [i \in 1..Len(calls) |-> calls[i].kind]

\* All calls but the last returned; the last one did iff returned says so.
OnlyLastMayFail(calls, returned) ==
    \A i \in 1..Len(calls) : calls[i].raised <=> (i = Len(calls) /\ ~returned)

C13_CallsState ==
    /\ \A t \in Threads :
        /\ pc[t] \in UploadPcs => Kinds(log[t]) = <<"extract">>
        /\ pc[t] = "m_extract" => log[t] = <<>>
        /\ pc[t] = "m_score" =>
               /\ Kinds(log[t]) \in {<<>>, <<"extract">>}
               /\ OnlyLastMayFail(log[t], TRUE)
        /\ pc[t] = "m_write" =>
               /\ Kinds(log[t]) \in {<<"score">>, <<"extract", "score">>}
               /\ OnlyLastMayFail(log[t], TRUE)
    /\ resp.request.kind = "upload" =>
           IF resp.status = 200 THEN Kinds(resp.calls) = <<"extract">>
           ELSE resp.calls = <<>>
    /\ resp.request.kind = "match" =>
           /\ resp.status = 200 =>
                  /\ Kinds(resp.calls) \in {<<"score">>, <<"extract", "score">>}
                  /\ OnlyLastMayFail(resp.calls, TRUE)
           /\ resp.status = 500 =>
                  /\ Kinds(resp.calls) \in
                         {<<"extract">>, <<"score">>, <<"extract", "score">>}
                  /\ OnlyLastMayFail(resp.calls, FALSE)
           /\ resp.status \in {400, 404} => resp.calls = <<>>

\* The calls of thread t's request after a step: in its log, or in the
\* response when the step ended the request.
CallsAfter(t) == IF pc'[t] = "idle" THEN resp'.calls ELSE log'[t]

C13_CallsStep ==
    \A t \in Threads :
        /\ (pc[t] = "idle" /\ pc'[t] \in MatchPcs
                /\ heap[local'[t].resume].parsed = PyNone) =>
               pc'[t] = "m_extract"
        /\ (pc[t] = "m_extract" /\ pc'[t] # "m_extract") =>
               /\ Kinds(CallsAfter(t)) = <<"extract">>
               /\ pc'[t] = "idle" <=> CallsAfter(t)[1].raised
        /\ (pc[t] = "m_score" /\ pc'[t] # "m_score") =>
               /\ Kinds(CallsAfter(t)) = Kinds(log[t]) \o <<"score">>
               /\ pc'[t] \in {"idle", "m_write"}
        /\ (pc[t] = "m_write" /\ pc'[t] # "m_write") =>
               /\ pc'[t] = "idle"
               /\ resp'.calls = log[t]
        /\ (pc[t] \in UploadPcs /\ pc'[t] # pc[t]) =>
               CallsAfter(t) = log[t]

C13_AsWrittenStep ==
    \A t \in Threads :
        /\ (pc[t] = "idle" /\ pc'[t] \in MatchPcs) =>
               (pc'[t] = "m_extract" <=> heap[local'[t].resume].parsed = PyNone)
        /\ (pc[t] \in MatchPcs /\ pc'[t] = "idle") =>
               /\ Len(resp'.calls) <= 2
               /\ Cardinality({i \in 1..Len(resp'.calls) :
                                  resp'.calls[i].kind = "score"}) = 1

RECURSIVE SplitFrom(_, _)
SplitFrom(s, cur) ==
    IF s = <<>> THEN <<cur>>
    ELSE IF Head(s) = "\n" THEN <<cur>> \o SplitFrom(Tail(s), <<>>)
    ELSE SplitFrom(Tail(s), Append(cur, Head(s)))

SplitOnNewline(s) == SplitFrom(s, <<>>)

\* No line break in s[a..b].
SameLine(s, a, b) == \A j \in a..b : s[j] \notin LineBreaks

\* a is where a trimmed line of s begins: not whitespace, and whatever
\* precedes it on its line is.
LineStart(s, a) ==
    /\ s[a] \notin Whitespace
    /\ \A k \in 1..(a - 1) : SameLine(s, k, a) => s[k] \in Whitespace

\* b is where the trimmed line beginning at a ends.
LineStop(s, a, b) ==
    /\ s[b] \notin Whitespace
    /\ SameLine(s, a, b)
    /\ \A k \in (b + 1)..Len(s) : SameLine(s, b, k) => s[k] \in Whitespace

RECURSIVE TrimmedLinesFrom(_, _)
TrimmedLinesFrom(s, a) ==
    IF a > Len(s) THEN <<>>
    ELSE IF LineStart(s, a)
    THEN <<SubSeq(s, a, CHOOSE b \in a..Len(s) : LineStop(s, a, b))>>
             \o TrimmedLinesFrom(s, a + 1)
    ELSE TrimmedLinesFrom(s, a + 1)

\* The trimmed non-blank lines of the pages, page after page.
RECURSIVE TrimmedLinesOf(_)
TrimmedLinesOf(pages) ==
    IF pages = <<>> THEN <<>>
    ELSE TrimmedLinesFrom(PageText(Head(pages)), 1) \o TrimmedLinesOf(Tail(pages))

HasNonBlankLine(pages) ==
    \E i \in 1..Len(pages) :
        \E j \in 1..Len(PageText(pages[i])) : PageText(pages[i])[j] \notin Whitespace

C14_OutputIsTheTrimmedLines ==
    HasNonBlankLine(DocPages) =>
        LET lines == SplitOnNewline(DocOutput) IN
        /\ \A i \in 1..Len(lines) :
               /\ lines[i] # <<>>
               /\ \E j \in 1..Len(lines[i]) : lines[i][j] \notin Whitespace
               /\ lines[i][1] \notin Whitespace
               /\ lines[i][Len(lines[i])] \notin Whitespace
        /\ lines = TrimmedLinesOf(DocPages)

\* Reached: a document with a page without text and a page whose text is
\* changed by the cleaning, giving two lines.
C14_Witness ==
    /\ \E i \in 1..Len(DocPages) : DocPages[i] = <<>>
    /\ \E i \in 1..Len(DocPages) :
           /\ DocPages[i] # <<>>
           /\ DocPages[i][1] # DocOutput
           /\ Len(DocPages[i][1]) >= Len(DocOutput)
    /\ Len(SplitOnNewline(DocOutput)) = 2

(***************************************************************************)
(* C15.  A match request performs the lazy extraction, and overwrites the  *)
(* record's parsed, only if parsed was absent (None): once parsed holds    *)
(* any other value, the empty object of the model output "{}" included, no *)
(* later match request issues an extraction call for the record or changes *)
(* its parsed.                                                             *)
(* Line 319 tests `not resume.get("parsed")`, which is also true of {}, so *)
(* this is violated, already with requests served one at a time.           *)
(***************************************************************************)
C15_PresentParsedIsKeptStep ==
    /\ \A t \in Threads :
           (pc[t] = "idle" /\ pc'[t] \in MatchPcs
                /\ heap[local'[t].resume].parsed # PyNone) =>
               pc'[t] # "m_extract"
    /\ \A ref \in DOMAIN heap :
           heap[ref].parsed # PyNone => heap'[ref].parsed = heap[ref].parsed

C15_PresentParsedIsKept == [][C15_PresentParsedIsKeptStep]_vars

(***************************************************************************)
(* C16.  Under any interleaving of concurrent match requests on the same   *)
(* id, a record's last_match is never torn: it is absent or one pair       *)
(* (job_description, match_result), and it only ever changes by one match  *)
(* request writing, in one step, the job description it was sent together  *)
(* with the result its own scoring call returned for that job description; *)
(* the pair of the match request answered last is the last_match of a      *)
(* record, so when all requests have finished the record holds the pair    *)
(* written by one of them.                                                 *)
(***************************************************************************)
C16_LastMatchState ==
    /\ \A ref \in DOMAIN heap : Len(heap[ref].last_match) <= 1
    /\ (resp.request.kind = "match" /\ resp.status = 200) =>
           \E ref \in DOMAIN heap :
               heap[ref].last_match =
                   <<[job_description |-> resp.request.job_description,
                      match_result |-> resp.match_result]>>

C16_LastMatchStep ==
    \A ref \in DOMAIN heap :
        heap'[ref].last_match # heap[ref].last_match =>
            \E t \in Threads :
                LET scored == log[t][Len(log[t])] IN
                /\ pc[t] = "m_write"
                /\ pc'[t] = "idle"
                /\ local[t].resume = ref
                /\ scored.kind = "score"
                /\ ~scored.raised
                /\ scored.jd = local[t].request.job_description
                /\ heap'[ref].last_match =
                       <<[job_description |-> local[t].request.job_description,
                          match_result |-> scored.value]>>
                /\ resp'.request = local[t].request
                /\ resp'.job_description = scored.jd
                /\ resp'.match_result = scored.value

C16_LastMatchIsNeverTorn ==
    [](C16_LastMatchState) /\ [][C16_LastMatchStep]_vars

\* Reached: two match requests on one record overlapped (both looked it up
\* before either had extracted, so both extracted); one has written its
\* pair and been answered, the other, with another job description, is
\* about to write.
C16_Witness ==
    /\ resp.request.kind = "match"
    /\ resp.status = 200
    /\ Kinds(resp.calls) = <<"extract", "score">>
    /\ truthy(resp.calls[1].value)
    /\ \E t \in Threads :
           /\ pc[t] = "m_write"
           /\ Kinds(log[t]) = <<"extract", "score">>
           /\ local[t].job_description # resp.job_description
           /\ heap[local[t].resume].last_match =
                  <<[job_description |-> resp.job_description,
                     match_result |-> resp.match_result]>>

=============================================================================
